---- MODULE Spec2Model ----
(***************************************************************************)
(* The staging -> historical promotion pipeline of the drug-shortage ETL   *)
(* (src/etl/fetch_fda_data.py, class OpenFDAETL, and its main()).          *)
(*                                                                         *)
(* A table is a function from the ids of its rows to the rows' content.    *)
(* The content of a row is the record's five key fields (generic_name,     *)
(* company_name, presentation, update_date, package_ndc), drawn from the   *)
(* small set Keys; md5(...)[:8] is the many-to-one function BaseId, whose  *)
(* range includes 0, the smallest value int(hexdigest[:8], 16) can take.   *)
(* Every call to the database is one step: it either takes effect or       *)
(* raises, and run_weekly_etl's position between the calls is pc.          *)
(* ensure_schema_exists writes neither table and catches what it raises;   *)
(* it is part of Start.  Under Spec and SpecRefetch the runs are executed   *)
(* one at a time.                                                           *)
(***************************************************************************)
EXTENDS Integers, Sequences, FiniteSets

\* ---------------------------------------------------------------- bounds

\* Longest list of records one fetch returns.
MaxBatch == 2

\* Number of invocations of main() in a behaviour.
MaxRuns == 3

\* ---------------------------------------------------------------- inputs

\* The invocations: the scheduler's job and a manual run of main().
Procs == {"scheduled", "manual"}

\* The distinct contents (five key fields) the upstream API can report.
Keys == {"a", "b", "c"}

\* md5 of the key fields, first 8 hex digits as an integer: "b" and "c"
\* collide, and "a" hashes to the smallest id, 0.
BaseId(record) ==
    CASE record = "a" -> 0
      [] record = "b" -> 1
      [] record = "c" -> 1

RECURSIVE SeqsUpTo(_)
SeqsUpTo(n) ==
    IF n = 0 THEN {<< >>}
    ELSE LET shorter == SeqsUpTo(n - 1)
         IN  shorter \cup {Append(s, k) : s \in {t \in shorter : Len(t) = n - 1}, k \in Keys}

\* What data['results'] can be.
Batches == SeqsUpTo(MaxBatch)

\* ---------------------------------------------------------------- tables

EmptyTable == [i \in {} |-> "a"]

Count(table) == Cardinality(DOMAIN table)

\* Faulty upsert: the table is replaced by the rows.
UpsertReplacingAll(table, rows) == rows

\* Faulty upsert: no conflict on id is detected, every row is inserted as a
\* new row past the ids the table holds.
UpsertAppending(table, rows) ==
    LET past == IF DOMAIN table = {} THEN 0
                ELSE 1 + CHOOSE m \in DOMAIN table : \A i \in DOMAIN table : i <= m
    IN  [i \in DOMAIN table \cup {j + past : j \in DOMAIN rows} |->
            IF i \in DOMAIN table THEN table[i] ELSE rows[i - past]]

\* table.upsert(rows, on_conflict='id'): a row whose id is present is
\* overwritten, any other row is inserted.
Upsert(table, rows) ==
    [i \in DOMAIN table \cup DOMAIN rows |->
        IF i \in DOMAIN rows THEN rows[i] ELSE table[i]]

\* table.delete().neq('id', v): deletes the rows whose id differs from v.
DeleteNeq(table, v) ==
    [i \in {j \in DOMAIN table : ~(j # v)} |-> table[i]]

\* ---------------------------------------------------------- id generator

\* The while loop of generate_unique_id.
RECURSIVE Probe(_, _)
Probe(unique_id, existing_ids) ==
    IF unique_id \in existing_ids
    THEN Probe(unique_id + 1, existing_ids)
    ELSE unique_id

\* The base id whether it is taken or not.
BaseIdWithoutProbing(record, existing_ids) == BaseId(record)

generate_unique_id(record, existing_ids) == Probe(BaseId(record), existing_ids)

\* The loop of transform_data: existing_ids grows by each id handed out.
RECURSIVE transform_data(_, _)
transform_data(raw, existing_ids) ==
    IF raw = << >> THEN << >>
    ELSE LET unique_id == generate_unique_id(Head(raw), existing_ids)
         IN  << [id |-> unique_id, key |-> Head(raw)] >>
             \o transform_data(Tail(raw), existing_ids \cup {unique_id})

\* df.to_dict('records') handed to upsert: the rows by id.
RowsOf(records) ==
    [i \in {records[n].id : n \in DOMAIN records} |->
        (CHOOSE r \in {records[n] : n \in DOMAIN records} : r.id = i).key]

\* ----------------------------------------------------------------- state

VARIABLES
    staging,            \* table drug_shortages_staging
    historical,         \* table drug_shortages_historical_classified
    pc,                 \* where each invocation stands in run_weekly_etl
    staging_result,     \* promote_staging_to_historical: staging_result.data
    raw_data,           \* run_weekly_etl: the fetched records
    df,                 \* run_weekly_etl: the transformed records
    result,             \* what run_weekly_etl returned
    fault,              \* the call that raised in this run, "none" if none
    historical_before,  \* main: the Historical count read before the run
    runs,               \* invocations started so far
    \* history and environment, read by the properties only
    everStaged,         \* every id that was ever a row of Staging
    atStart,            \* the two tables when the run started
    lastPromo,          \* the last promotion that ended, reset by a Staging write
    prevPromo,          \* the promotion that ended before lastPromo
    upstream,           \* what the API reports: a fixed list, or Varying
    okRuns,             \* runs that returned True
    \* direct calls of the two pure methods
    caller_ids,         \* generate_unique_id: the set a direct caller passes in
    assigned,           \* the calls of generate_unique_id made so far
    classified,         \* the last call of classify_availability_status
    built,              \* the last call of build_episodes
    sched,              \* scheduler.py: its clock, its job and where its loop stands
    reset_staging       \* the reset_staging argument of each invocation

vars == << staging, historical, pc, staging_result, raw_data, df, result, fault,
           historical_before, runs, everStaged, atStart, lastPromo, prevPromo,
           upstream, okRuns, caller_ids, assigned, classified, built, sched, reset_staging >>

calls == << caller_ids, assigned, classified, built, sched >>

locals == << staging_result, raw_data, df >>

NoPromo == [outcome |-> "none", rows |-> EmptyTable,
            sBefore |-> EmptyTable, hBefore |-> EmptyTable,
            staging |-> EmptyTable, historical |-> EmptyTable]

NoSnapshot == [staging |-> EmptyTable, historical |-> EmptyTable]

\* The API's content changes from one call to the next.
Varying == << "varying" >>

NoCall == [result |-> "none"]

NoCalls ==
    /\ caller_ids = {}
    /\ assigned = << >>
    /\ classified = NoCall
    /\ built = NoCall
    /\ sched = NoCall

Init ==
    /\ staging = EmptyTable
    /\ historical = EmptyTable
    /\ pc = [p \in Procs |-> "idle"]
    /\ staging_result = [p \in Procs |-> EmptyTable]
    /\ raw_data = [p \in Procs |-> << >>]
    /\ df = [p \in Procs |-> << >>]
    /\ result = [p \in Procs |-> "none"]
    /\ fault = [p \in Procs |-> "none"]
    /\ historical_before = [p \in Procs |-> 0]
    /\ runs = 0
    /\ everStaged = {}
    /\ atStart = [p \in Procs |-> NoSnapshot]
    /\ lastPromo = NoPromo
    /\ prevPromo = NoPromo
    /\ upstream = Varying
    /\ okRuns = 0
    /\ reset_staging = [p \in Procs |-> FALSE]
    /\ NoCalls

\* ------------------------------------------------------------ bookkeeping

\* run_weekly_etl returns False after `call` raised.
ReturnFalse(p, call) ==
    /\ pc' = [pc EXCEPT ![p] = "done"]
    /\ result' = [result EXCEPT ![p] = "fail"]
    /\ fault' = [fault EXCEPT ![p] = call]
    /\ okRuns' = okRuns

ReturnTrue(p) ==
    /\ pc' = [pc EXCEPT ![p] = "done"]
    /\ result' = [result EXCEPT ![p] = "ok"]
    /\ fault' = fault
    /\ okRuns' = okRuns + 1

\* promote_staging_to_historical ended: remember how.
PromotionEnded(p, outcome, rows) ==
    /\ prevPromo' = lastPromo
    /\ lastPromo' = [outcome |-> outcome, rows |-> rows,
                     sBefore |-> atStart[p].staging,
                     hBefore |-> atStart[p].historical,
                     staging |-> staging', historical |-> historical']

\* The lists data['results'] can be at this call.
Answers == IF upstream = Varying THEN Batches ELSE {upstream}

\* ---------------------------------------------------------------- actions

\* main() counts the rows and calls run_weekly_etl; the runs of this
\* specification are executed one at a time.
Start(p) ==
    /\ \A q \in Procs : pc[q] = "idle"
    /\ runs < MaxRuns
    /\ runs' = runs + 1
    /\ historical_before' = [historical_before EXCEPT ![p] = Count(historical)]
    /\ atStart' = [atStart EXCEPT ![p] = [staging |-> staging, historical |-> historical]]
    /\ pc' = [pc EXCEPT ![p] = "promote_select"]
    /\ UNCHANGED << staging, historical, locals, result, fault, everStaged,
                    lastPromo, prevPromo, upstream, okRuns, calls, reset_staging >>

\* select('*') on Staging raises.
PromoteSelectFail(p) ==
    /\ pc[p] = "promote_select"
    /\ ReturnFalse(p, "select")
    /\ UNCHANGED << staging, historical >>
    /\ PromotionEnded(p, "select_failed", EmptyTable)
    /\ UNCHANGED << locals, historical_before, runs, everStaged, atStart,
                    upstream, calls, reset_staging >>

\* Faulty: an empty Staging is treated as a failed promotion.
PromoteEmptyFails(p) ==
    /\ pc[p] = "promote_select"
    /\ staging = EmptyTable
    /\ ReturnFalse(p, "empty")
    /\ UNCHANGED << staging, historical >>
    /\ PromotionEnded(p, "empty_failed", EmptyTable)
    /\ UNCHANGED << locals, historical_before, runs, everStaged, atStart,
                    upstream, calls, reset_staging >>

\* "No staging data to promote": promotion returns True.
PromoteEmpty(p) ==
    /\ pc[p] = "promote_select"
    /\ staging = EmptyTable
    /\ pc' = [pc EXCEPT ![p] = "fetch"]
    /\ UNCHANGED << staging, historical >>
    /\ PromotionEnded(p, "ok", EmptyTable)
    /\ UNCHANGED << locals, result, fault, historical_before, runs, everStaged,
                    atStart, upstream, okRuns, calls, reset_staging >>

\* select('*') returns the rows of Staging.
PromoteSelect(p) ==
    /\ pc[p] = "promote_select"
    /\ staging # EmptyTable
    /\ staging_result' = [staging_result EXCEPT ![p] = staging]
    /\ pc' = [pc EXCEPT ![p] = "promote_upsert"]
    /\ UNCHANGED << staging, historical, raw_data, df, result, fault,
                    historical_before, runs, everStaged, atStart, lastPromo,
                    prevPromo, upstream, okRuns, calls, reset_staging >>

\* Faulty: the failed upsert is logged and Staging is cleared all the same.
PromoteUpsertFailClears(p) ==
    /\ pc[p] = "promote_upsert"
    /\ ReturnFalse(p, "upsert")
    /\ staging' = DeleteNeq(staging, 0)
    /\ historical' = historical
    /\ PromotionEnded(p, "upsert_failed", staging_result[p])
    /\ UNCHANGED << locals, historical_before, runs, everStaged, atStart,
                    upstream, calls, reset_staging >>

\* The upsert into Historical raises: nothing is written.
PromoteUpsertFail(p) ==
    /\ pc[p] = "promote_upsert"
    /\ ReturnFalse(p, "upsert")
    /\ UNCHANGED << staging, historical >>
    /\ PromotionEnded(p, "upsert_failed", staging_result[p])
    /\ UNCHANGED << locals, historical_before, runs, everStaged, atStart,
                    upstream, calls, reset_staging >>

\* Faulty: promotion goes on to the clear without having written Historical.
PromoteUpsertSkipped(p) ==
    /\ pc[p] = "promote_upsert"
    /\ pc' = [pc EXCEPT ![p] = "promote_clear"]
    /\ UNCHANGED << staging, historical, locals, result, fault, historical_before,
                    runs, everStaged, atStart, lastPromo, prevPromo, upstream, okRuns, calls, reset_staging >>

\* The rows read from Staging are upserted into Historical.
PromoteUpsert(p) ==
    /\ pc[p] = "promote_upsert"
    /\ historical' = Upsert(historical, staging_result[p])
    /\ pc' = [pc EXCEPT ![p] = "promote_clear"]
    /\ UNCHANGED << staging, locals, result, fault, historical_before, runs,
                    everStaged, atStart, lastPromo, prevPromo, upstream, okRuns, calls, reset_staging >>

\* The delete on Staging raises after the upsert went through.
PromoteClearFail(p) ==
    /\ pc[p] = "promote_clear"
    /\ ReturnFalse(p, "clear")
    /\ UNCHANGED << staging, historical >>
    /\ PromotionEnded(p, "clear_failed", staging_result[p])
    /\ UNCHANGED << locals, historical_before, runs, everStaged, atStart,
                    upstream, calls, reset_staging >>

\* delete().neq('id', 0) on Staging; promotion returns True.
PromoteClear(p) ==
    /\ pc[p] = "promote_clear"
    /\ staging' = DeleteNeq(staging, 0)
    /\ historical' = historical
    /\ pc' = [pc EXCEPT ![p] = "fetch"]
    /\ PromotionEnded(p, "ok", staging_result[p])
    /\ UNCHANGED << locals, result, fault, historical_before, runs, everStaged,
                    atStart, upstream, okRuns, calls, reset_staging >>

\* Faulty: the None of a failed fetch is taken for "no new data".
FetchFailReturnsTrue(p) ==
    /\ pc[p] = "fetch"
    /\ pc' = [pc EXCEPT ![p] = "done"]
    /\ result' = [result EXCEPT ![p] = "ok"]
    /\ fault' = [fault EXCEPT ![p] = "fetch"]
    /\ okRuns' = okRuns + 1
    /\ UNCHANGED << staging, historical, locals, historical_before, runs,
                    everStaged, atStart, lastPromo, prevPromo, upstream, calls, reset_staging >>

\* requests.RequestException or json.JSONDecodeError: fetch returns None.
FetchFail(p) ==
    /\ pc[p] = "fetch"
    /\ ReturnFalse(p, "fetch")
    /\ UNCHANGED << staging, historical, locals, historical_before, runs,
                    everStaged, atStart, lastPromo, prevPromo, upstream, calls, reset_staging >>

\* No 'results' in the answer, or an empty list: "No new data to process".
FetchEmpty(p) ==
    /\ pc[p] = "fetch"
    /\ << >> \in Answers
    /\ ReturnTrue(p)
    /\ UNCHANGED << staging, historical, locals, historical_before, runs,
                    everStaged, atStart, lastPromo, prevPromo, upstream, calls, reset_staging >>

\* The API returns a non-empty list of records.
Fetch(p) ==
    /\ pc[p] = "fetch"
    /\ \E batch \in Answers \ {<< >>} :
          raw_data' = [raw_data EXCEPT ![p] = batch]
    /\ pc' = [pc EXCEPT ![p] = "transform"]
    /\ UNCHANGED << staging, historical, staging_result, df, result, fault,
                    historical_before, runs, everStaged, atStart, lastPromo,
                    prevPromo, upstream, okRuns, calls, reset_staging >>

\* get_existing_ids reads the ids of Staging (an empty set when the read
\* raises), then every record is given its id.
Transform(p) ==
    /\ pc[p] = "transform"
    /\ \E readOk \in BOOLEAN :
          LET existing_ids == IF readOk THEN DOMAIN staging ELSE {}
          IN  /\ df' = [df EXCEPT ![p] = transform_data(raw_data[p], existing_ids)]
              /\ fault' = [fault EXCEPT ![p] =
                               IF readOk THEN fault[p] ELSE "get_existing_ids"]
    /\ pc' = [pc EXCEPT ![p] = "load"]
    /\ UNCHANGED << staging, historical, staging_result, raw_data, result,
                    historical_before, runs, everStaged, atStart, lastPromo,
                    prevPromo, upstream, okRuns, calls, reset_staging >>

\* A record without therapeutic_category: record.get(...)[0] raises, nothing
\* catches it and run_weekly_etl ends by the exception.
TransformRaises(p) ==
    /\ pc[p] = "transform"
    /\ pc' = [pc EXCEPT ![p] = "done"]
    /\ result' = [result EXCEPT ![p] = "raised"]
    /\ fault' = [fault EXCEPT ![p] = "transform"]
    /\ UNCHANGED << staging, historical, locals, historical_before, runs,
                    everStaged, atStart, lastPromo, prevPromo, upstream, okRuns, calls, reset_staging >>

\* Faulty: the records are written one by one and the second write raises.
LoadFailAfterFirstRecord(p) ==
    /\ pc[p] = "load"
    /\ staging' = IF df[p] = << >> THEN staging
                  ELSE Upsert(staging, RowsOf(<< Head(df[p]) >>))
    /\ ReturnFalse(p, "load")
    /\ UNCHANGED << historical, locals, historical_before, runs,
                    everStaged, atStart, lastPromo, prevPromo, upstream, calls, reset_staging >>

\* The upsert into Staging raises: load_to_staging returns False.
LoadFail(p) ==
    /\ pc[p] = "load"
    /\ ReturnFalse(p, "load")
    /\ UNCHANGED << staging, historical, locals, historical_before, runs,
                    everStaged, atStart, lastPromo, prevPromo, upstream, calls, reset_staging >>

\* Faulty: the load replaces the rows of Staging by the batch.
LoadToStagingReplaces(p) ==
    /\ pc[p] = "load"
    /\ staging' = RowsOf(df[p])
    /\ everStaged' = everStaged \cup DOMAIN RowsOf(df[p])
    /\ lastPromo' = NoPromo
    /\ prevPromo' = NoPromo
    /\ ReturnTrue(p)
    /\ UNCHANGED << historical, locals, historical_before, runs, atStart,
                    upstream, calls, reset_staging >>

\* The transformed records are upserted into Staging.
LoadToStaging(p) ==
    /\ pc[p] = "load"
    /\ staging' = Upsert(staging, RowsOf(df[p]))
    /\ everStaged' = everStaged \cup DOMAIN RowsOf(df[p])
    /\ lastPromo' = NoPromo
    /\ prevPromo' = NoPromo
    /\ ReturnTrue(p)
    /\ UNCHANGED << historical, locals, historical_before, runs, atStart,
                    upstream, calls, reset_staging >>

\* The process is gone: its variables are gone with it.
ProcessEnds(p) ==
    /\ pc' = [pc EXCEPT ![p] = "idle"]
    /\ staging_result' = [staging_result EXCEPT ![p] = EmptyTable]
    /\ raw_data' = [raw_data EXCEPT ![p] = << >>]
    /\ df' = [df EXCEPT ![p] = << >>]
    /\ result' = [result EXCEPT ![p] = "none"]
    /\ fault' = [fault EXCEPT ![p] = "none"]
    /\ historical_before' = [historical_before EXCEPT ![p] = 0]
    /\ atStart' = [atStart EXCEPT ![p] = NoSnapshot]
    /\ reset_staging' = [reset_staging EXCEPT ![p] = FALSE]

\* main() after run_weekly_etl: exit(1) when it returned False or when the
\* Historical count went down; an exception nothing catches (from
\* run_weekly_etl or from the two count reads) ends the process with a
\* traceback and status 1.  test_etl.main() does not count: it exits by the
\* result alone.
MainExits(p) ==
    /\ pc[p] = "done"
    /\ \E countOk \in BOOLEAN :
          pc' = [pc EXCEPT ![p] =
                    IF /\ result[p] = "ok"
                       /\ \/ reset_staging[p]
                          \/ countOk /\ Count(historical) >= historical_before[p]
                    THEN "exit_0"
                    ELSE "exit_1"]
    /\ UNCHANGED << staging, historical, locals, result, fault, historical_before,
                    runs, everStaged, atStart, lastPromo, prevPromo, upstream,
                    okRuns, calls, reset_staging >>

\* The process has ended.
Return(p) ==
    /\ pc[p] \in {"exit_0", "exit_1"}
    /\ ProcessEnds(p)
    /\ UNCHANGED << staging, historical, runs, everStaged, lastPromo, prevPromo,
                    upstream, okRuns, calls >>

\* The run is killed between two calls (the scheduler's one-hour timeout, an
\* interrupt): what the calls made so far wrote stays written.  Killed inside
\* promotion before the upsert, the promotion did nothing; killed after the
\* upsert, its clear is skipped.
Abort(p) ==
    /\ pc[p] \notin {"idle", "done", "exit_0", "exit_1"}
    /\ ProcessEnds(p)
    /\ UNCHANGED << staging, historical >>
    /\ IF pc[p] \in {"promote_select", "promote_upsert"}
          THEN PromotionEnded(p, "aborted", staging_result[p])
          ELSE IF pc[p] = "promote_clear"
          THEN PromotionEnded(p, "clear_skipped", staging_result[p])
          ELSE UNCHANGED << lastPromo, prevPromo >>
    /\ UNCHANGED << runs, everStaged, upstream, okRuns, calls >>

Next ==
    \E p \in Procs :
        \/ Start(p)
        \/ PromoteSelectFail(p)
        \/ PromoteEmpty(p)
        \/ PromoteSelect(p)
        \/ PromoteUpsertFail(p)
        \/ PromoteUpsert(p)
        \/ PromoteClearFail(p)
        \/ PromoteClear(p)
        \/ FetchFail(p)
        \/ FetchEmpty(p)
        \/ Fetch(p)
        \/ Transform(p)
        \/ TransformRaises(p)
        \/ LoadFail(p)
        \/ LoadToStaging(p)
        \/ MainExits(p)
        \/ Return(p)
        \/ Abort(p)

Spec == Init /\ [][Next]_vars

\* The 15-day windows of successive runs overlap and the API reports the
\* same list to every one of them.
InitRefetch ==
    /\ upstream \in Batches
    /\ staging = EmptyTable
    /\ historical = EmptyTable
    /\ pc = [p \in Procs |-> "idle"]
    /\ staging_result = [p \in Procs |-> EmptyTable]
    /\ raw_data = [p \in Procs |-> << >>]
    /\ df = [p \in Procs |-> << >>]
    /\ result = [p \in Procs |-> "none"]
    /\ fault = [p \in Procs |-> "none"]
    /\ historical_before = [p \in Procs |-> 0]
    /\ runs = 0
    /\ everStaged = {}
    /\ atStart = [p \in Procs |-> NoSnapshot]
    /\ lastPromo = NoPromo
    /\ prevPromo = NoPromo
    /\ okRuns = 0
    /\ reset_staging = [p \in Procs |-> FALSE]
    /\ NoCalls

SpecRefetch == InitRefetch /\ [][Next]_vars

\* main() as it is written: nothing in it looks for a run in flight.  The
\* scheduler's loop blocks in subprocess.run until its own job has ended, so
\* an invocation only waits for its own previous run; a manual run of main()
\* starts whenever it is launched.
StartOverlapping(p) ==
    /\ pc[p] = "idle"
    /\ runs < MaxRuns
    /\ runs' = runs + 1
    /\ historical_before' = [historical_before EXCEPT ![p] = Count(historical)]
    /\ atStart' = [atStart EXCEPT ![p] = [staging |-> staging, historical |-> historical]]
    /\ pc' = [pc EXCEPT ![p] = "promote_select"]
    /\ UNCHANGED << staging, historical, locals, result, fault, everStaged,
                    lastPromo, prevPromo, upstream, okRuns, calls, reset_staging >>

NextOverlap ==
    \E p \in Procs :
        \/ StartOverlapping(p)
        \/ PromoteSelectFail(p)
        \/ PromoteEmpty(p)
        \/ PromoteSelect(p)
        \/ PromoteUpsertFail(p)
        \/ PromoteUpsert(p)
        \/ PromoteClearFail(p)
        \/ PromoteClear(p)
        \/ FetchFail(p)
        \/ FetchEmpty(p)
        \/ Fetch(p)
        \/ Transform(p)
        \/ TransformRaises(p)
        \/ LoadFail(p)
        \/ LoadToStaging(p)
        \/ MainExits(p)
        \/ Return(p)
        \/ Abort(p)

\* Runs may overlap; the API reports one list throughout.
SpecOverlap == InitRefetch /\ [][NextOverlap]_vars

\* As InitRefetch, the list the API reports holding no record twice.
InitRace ==
    /\ InitRefetch
    /\ \A m, n \in DOMAIN upstream : upstream[m] = upstream[n] => m = n

\* Runs may overlap; the API reports one list of distinct records throughout.
SpecRace == InitRace /\ [][NextOverlap]_vars

\* test_etl.main(): etl.run_weekly_etl(reset_staging=True).  run_weekly_etl(self)
\* has no such parameter: the call raises TypeError before the first statement
\* of the run, and nothing in test_etl.main() catches it.
TestMain(p) ==
    /\ \A q \in Procs : pc[q] = "idle"
    /\ runs < MaxRuns
    /\ runs' = runs + 1
    /\ reset_staging' = [reset_staging EXCEPT ![p] = TRUE]
    /\ atStart' = [atStart EXCEPT ![p] = [staging |-> staging, historical |-> historical]]
    /\ pc' = [pc EXCEPT ![p] = "done"]
    /\ result' = [result EXCEPT ![p] = "raised"]
    /\ fault' = [fault EXCEPT ![p] = "run_weekly_etl"]
    /\ UNCHANGED << staging, historical, locals, historical_before, everStaged,
                    lastPromo, prevPromo, upstream, okRuns, calls >>

NextTest == Next \/ \E p \in Procs : TestMain(p)

\* The weekly runs and the runs of the test script, one at a time.
SpecTest == Init /\ [][NextTest]_vars

\* ---------------------------------------------- the schema step of the run

\* main() counts the rows and calls run_weekly_etl, whose first statement is
\* self.ensure_schema_exists(); the runs are executed one at a time.
StartWithSchema(p) ==
    /\ \A q \in Procs : pc[q] = "idle"
    /\ runs < MaxRuns
    /\ runs' = runs + 1
    /\ historical_before' = [historical_before EXCEPT ![p] = Count(historical)]
    /\ atStart' = [atStart EXCEPT ![p] = [staging |-> staging, historical |-> historical]]
    /\ pc' = [pc EXCEPT ![p] = "schema"]
    /\ UNCHANGED << staging, historical, locals, result, fault, everStaged,
                    lastPromo, prevPromo, upstream, okRuns, calls, reset_staging >>

\* Faulty: the exception of the schema step leaves run_weekly_etl as a failure.
SchemaRaisesAborts(p) ==
    /\ pc[p] = "schema"
    /\ ReturnFalse(p, "ensure_schema_exists")
    /\ UNCHANGED << staging, historical, locals, historical_before, runs,
                    everStaged, atStart, lastPromo, prevPromo, upstream, calls,
                    reset_staging >>

\* An rpc of the schema step, or the open() of the SQL file, raises: the
\* except clause logs a warning and ensure_schema_exists returns.
SchemaRaises(p) ==
    /\ pc[p] = "schema"
    /\ pc' = [pc EXCEPT ![p] = "promote_select"]
    /\ fault' = [fault EXCEPT ![p] = "ensure_schema_exists"]
    /\ UNCHANGED << staging, historical, locals, result, historical_before, runs,
                    everStaged, atStart, lastPromo, prevPromo, upstream, okRuns,
                    calls, reset_staging >>

\* The view is there, or is created: no row of the two tables changes.
SchemaOk(p) ==
    /\ pc[p] = "schema"
    /\ pc' = [pc EXCEPT ![p] = "promote_select"]
    /\ UNCHANGED << staging, historical, locals, result, fault, historical_before,
                    runs, everStaged, atStart, lastPromo, prevPromo, upstream,
                    okRuns, calls, reset_staging >>

NextSchema ==
    \E p \in Procs :
        \/ StartWithSchema(p)
        \/ SchemaRaises(p)
        \/ SchemaOk(p)
        \/ PromoteSelectFail(p)
        \/ PromoteEmpty(p)
        \/ PromoteSelect(p)
        \/ PromoteUpsertFail(p)
        \/ PromoteUpsert(p)
        \/ PromoteClearFail(p)
        \/ PromoteClear(p)
        \/ FetchFail(p)
        \/ FetchEmpty(p)
        \/ Fetch(p)
        \/ Transform(p)
        \/ TransformRaises(p)
        \/ LoadFail(p)
        \/ LoadToStaging(p)
        \/ MainExits(p)
        \/ Return(p)
        \/ Abort(p)

\* The runs with their schema step, one at a time; the API reports one list
\* throughout.
SpecSchema == InitRefetch /\ [][NextSchema]_vars

\* ------------------------------------------------ generate_unique_id alone

\* Direct calls of generate_unique_id in one specification.
MaxCalls == 2

UpdateTypes == {"New", "Revised"}

\* A raw record: its five key fields (written as their joined content, as in
\* the batches above) and a field that is not a key field.
RawRecords == [key_fields : Keys, update_type : UpdateTypes]

\* The sets of ids a caller can hold.
IdSets == SUBSET {0, 1, 2}

\* Every variable of the ETL run.
etl == << staging, historical, pc, staging_result, raw_data, df, result, fault,
          historical_before, runs, everStaged, atStart, lastPromo, prevPromo,
          upstream, okRuns, reset_staging >>

\* A content that takes update_type in.
key_fields_and_update_type(record) ==
    IF record.update_type = "Revised" THEN "c" ELSE record.key_fields

\* The content that is hashed: the five key fields, and nothing else.
key_fields(record) == record.key_fields

\* A caller comes with a set of its own.
NewIdSet ==
    /\ \E ids \in IdSets : ids # caller_ids /\ caller_ids' = ids
    /\ UNCHANGED << etl, assigned, classified, built, sched >>

\* generate_unique_id(record, existing_ids): the id is returned and added to
\* the caller's set.
GenerateUniqueId ==
    /\ Len(assigned) < MaxCalls
    /\ \E record \in RawRecords :
          LET unique_id == generate_unique_id(key_fields(record), caller_ids)
          IN  /\ caller_ids' = caller_ids \cup {unique_id}
              /\ assigned' = Append(assigned, [record |-> record,
                                               before |-> caller_ids,
                                               id     |-> unique_id,
                                               after  |-> caller_ids'])
    /\ UNCHANGED << etl, classified, built, sched >>

NextIds == NewIdSet \/ GenerateUniqueId

SpecIds == Init /\ [][NextIds]_vars

\* ---------------------------------------- classify_availability_status alone

\* A text is a sequence of atoms: word fragments, " " and ",".  The Python
\* values None and NaN are written as texts of one atom no real text has.
None == << "<None>" >>
NaN == << "<NaN>" >>

\* The longest availability_text drawn from TextAtoms.
MaxText == 2

TextAtoms == {" ", "Limited", "discontinue", "d", "un", "available"}

RECURSIVE TextsUpTo(_)
TextsUpTo(n) ==
    IF n = 0 THEN {<< >>}
    ELSE TextsUpTo(n - 1) \cup
         {Append(t, x) : t \in {u \in TextsUpTo(n - 1) : Len(u) = n - 1}, x \in TextAtoms}

AvailabilityTexts ==
    TextsUpTo(MaxText) \cup
    { None,
      << "Limited", ",", " ", "discontinue", "d" >>,
      << "Manufacturing", " ", "delay", " ", "reported" >>,
      << "Available", " ", "in", " ", "limited", " ", "supply" >>,
      << "Call", " ", "for", " ", "availability" >> }

RelatedTexts ==
    { None, << >>,
      << "Limited", " ", "allocation" >>,
      << "Product", " ", "discontinue", "d" >>,
      << "Next", " ", "delivery", " ", "tbd" >>,
      << "Shipping" >> }

StatusTexts ==
    { None, << >>, << "Current" >>, << "Resolved" >>,
      << "To", " ", "Be", " ", "Discontinue", "d" >> }

\* str.lower(), atom by atom.
LowerAtom(atom) ==
    CASE atom = "Limited" -> "limited"
      [] atom = "Manufacturing" -> "manufacturing"
      [] atom = "Available" -> "available"
      [] atom = "Discontinue" -> "discontinue"
      [] atom = "Product" -> "product"
      [] atom = "Next" -> "next"
      [] atom = "Shipping" -> "shipping"
      [] atom = "Current" -> "current"
      [] atom = "Resolved" -> "resolved"
      [] atom = "Call" -> "call"
      [] atom = "To" -> "to"
      [] atom = "Be" -> "be"
      [] OTHER -> atom

Lower(text) == [i \in DOMAIN text |-> LowerAtom(text[i])]

\* str.strip()
RECURSIVE LStrip(_)
LStrip(text) ==
    IF text # << >> /\ Head(text) = " " THEN LStrip(Tail(text)) ELSE text

RECURSIVE RStrip(_)
RStrip(text) ==
    IF text # << >> /\ text[Len(text)] = " "
    THEN RStrip(SubSeq(text, 1, Len(text) - 1))
    ELSE text

Strip(text) == RStrip(LStrip(text))

\* `text or ''`
OrEmpty(text) == IF text = None THEN << >> ELSE text

\* ' '.join([...]) of the three fields, lower-cased.
AllText(availability_text, related_info, status) ==
    Lower(OrEmpty(availability_text) \o << " " >> \o OrEmpty(related_info)
          \o << " " >> \o OrEmpty(status))

\* pattern in all_text
Contains(text, pattern) ==
    \E i \in 0 .. (Len(text) - Len(pattern)) :
        SubSeq(text, i + 1, i + Len(pattern)) = pattern

\* any(pattern in all_text for pattern in [...])
Matches(text, patterns) == \E pattern \in patterns : Contains(text, pattern)

DiscontinuedPatterns == { << "discontinue" >>, << "discontinue", "d" >> }

NotAvailablePatterns ==
    { << "not", " ", "available" >>, << "un", "available" >>,
      << "out", " ", "of", " ", "stock" >>, << "shortage" >>,
      << "back", "order" >>, << "back", " ", "order" >>,
      << "supply", " ", "disruption" >>, << "manufacturing", " ", "delay" >>,
      << "re", "supply", " ", "tbd" >>, << "expected", " ", "release" >>,
      << "next", " ", "delivery" >>, << "estimated", " ", "availability" >> }

LimitedPatterns ==
    { << "limited" >>, << "intermittent" >>, << "restricted" >>,
      << "allocated" >>, << "allocation" >>, << "allocating" >>,
      << "temporary", " ", "shortage" >>, << "reduced", " ", "supply" >>,
      << "under", " ", "allocation" >> }

AvailablePatterns ==
    { << "available" >>, << "in", " ", "stock" >>,
      << "supply", " ", "available" >>, << "shipping" >>,
      << "product", " ", "available" >> }

\* The keyword rules with `limited` tested before everything else.
KeywordStatusLimitedFirst(all_text) ==
    IF Matches(all_text, LimitedPatterns) THEN "limited availability"
    ELSE IF Matches(all_text, DiscontinuedPatterns) THEN "discontinued"
    ELSE IF Matches(all_text, NotAvailablePatterns) THEN "not available"
    ELSE IF Matches(all_text, AvailablePatterns) THEN "available"
    ELSE "unclear"

\* The keyword rules with `limited` tested before `not available`.
KeywordStatusLimitedOverNotAvailable(all_text) ==
    IF Matches(all_text, DiscontinuedPatterns) THEN "discontinued"
    ELSE IF Matches(all_text, LimitedPatterns) THEN "limited availability"
    ELSE IF Matches(all_text, NotAvailablePatterns) THEN "not available"
    ELSE IF Matches(all_text, AvailablePatterns) THEN "available"
    ELSE "unclear"

\* The keyword rules, first match returns.
KeywordStatus(all_text) ==
    IF Matches(all_text, DiscontinuedPatterns) THEN "discontinued"
    ELSE IF Matches(all_text, NotAvailablePatterns) THEN "not available"
    ELSE IF Matches(all_text, LimitedPatterns) THEN "limited availability"
    ELSE IF Matches(all_text, AvailablePatterns) THEN "available"
    ELSE "unclear"

\* A classification that never looks at the mapping.
classify_by_keywords_only(availability_mapping, availability_text, related_info, status) ==
    KeywordStatus(AllText(availability_text, related_info, status))

classify_availability_status(availability_mapping, availability_text, related_info, status) ==
    IF /\ availability_text # None
       /\ availability_text # << >>
       /\ Strip(availability_text) # << >>
       /\ Strip(availability_text) \in DOMAIN availability_mapping
    THEN availability_mapping[Strip(availability_text)]
    ELSE KeywordStatus(AllText(availability_text, related_info, status))

\* The rows (availability, availability_status) of the reference tables.
CsvRows ==
    { << >>,
      << [availability |-> << "Limited", ",", " ", "discontinue", "d" >>,
          availability_status |-> "limited availability"],
         [availability |-> << " " >>, availability_status |-> "unclear"] >>,
      << [availability |-> NaN, availability_status |-> "available"],
         [availability |-> << "Limited", " " >>, availability_status |-> "limited availability"],
         [availability |-> << "Limited" >>, availability_status |-> "not available"] >>,
      << [availability |-> << "available" >>, availability_status |-> "Available"] >>,
      << [availability |-> << "discontinue", "d" >>, availability_status |-> "nan"] >> }

\* The file cannot be read, or lacks a column: read_csv or row[...] raises.
Unreadable == [readable |-> FALSE, rows |-> << >>]

CsvFiles == {Unreadable} \cup [readable : {TRUE}, rows : CsvRows]

EmptyMapping == [text \in {} |-> "unclear"]

\* The loop over df.iterrows(): a row whose availability is NaN is skipped,
\* a later row replaces an earlier one of the same stripped text.
RECURSIVE MappingOfRows(_)
MappingOfRows(rows) ==
    IF rows = << >> THEN EmptyMapping
    ELSE LET mapping == MappingOfRows(SubSeq(rows, 1, Len(rows) - 1))
             row == rows[Len(rows)]
         IN  IF row.availability = NaN THEN mapping
             ELSE [text \in DOMAIN mapping \cup {Strip(row.availability)} |->
                      IF text = Strip(row.availability)
                      THEN row.availability_status
                      ELSE mapping[text]]

load_availability_mapping(csv) ==
    IF ~csv.readable THEN EmptyMapping ELSE MappingOfRows(csv.rows)

\* The ETL at rest, as after Init.
EtlAtRest ==
    /\ staging = EmptyTable
    /\ historical = EmptyTable
    /\ pc = [p \in Procs |-> "idle"]
    /\ staging_result = [p \in Procs |-> EmptyTable]
    /\ raw_data = [p \in Procs |-> << >>]
    /\ df = [p \in Procs |-> << >>]
    /\ result = [p \in Procs |-> "none"]
    /\ fault = [p \in Procs |-> "none"]
    /\ historical_before = [p \in Procs |-> 0]
    /\ runs = 0
    /\ everStaged = {}
    /\ atStart = [p \in Procs |-> NoSnapshot]
    /\ lastPromo = NoPromo
    /\ prevPromo = NoPromo
    /\ upstream = Varying
    /\ okRuns = 0
    /\ reset_staging = [p \in Procs |-> FALSE]

\* One call of classify_availability_status on an OpenFDAETL object: the
\* reference table on disk and the three arguments are the inputs.
InitClassify ==
    /\ EtlAtRest
    /\ caller_ids = {}
    /\ assigned = << >>
    /\ built = NoCall
    /\ sched = NoCall
    /\ classified \in [csv : CsvFiles,
                       availability_text : AvailabilityTexts,
                       related_info : RelatedTexts,
                       status : StatusTexts,
                       loaded : {FALSE},
                       availability_mapping : {EmptyMapping},
                       result : {"none"}]

\* __init__: self.availability_mapping = self.load_availability_mapping()
LoadAvailabilityMapping ==
    /\ ~classified.loaded
    /\ classified' = [classified EXCEPT
                         !.loaded = TRUE,
                         !.availability_mapping = load_availability_mapping(classified.csv)]
    /\ UNCHANGED << etl, caller_ids, assigned, built, sched >>

ClassifyAvailabilityStatus ==
    /\ classified.loaded
    /\ classified.result = "none"
    /\ classified' = [classified EXCEPT
                         !.result = classify_availability_status(
                                        classified.availability_mapping,
                                        classified.availability_text,
                                        classified.related_info,
                                        classified.status)]
    /\ UNCHANGED << etl, caller_ids, assigned, built, sched >>

NextClassify == LoadAvailabilityMapping \/ ClassifyAvailabilityStatus

SpecClassify == InitClassify /\ [][NextClassify]_vars

\* ------------------------------------------------------ build_episodes alone
\* The table drug_shortage_episodes the dashboards read is built outside
\* src/; build_episodes is written here from its contract.

\* The latest update_date and the longest list of records.
MaxDate == 3
MaxRecords == 3

Drugs == {"x", "y"}

EpisodeStatuses == {"available", "not available"}

\* The wall clock when the episodes are computed: after every update_date.
Now == MaxDate + 1

ClassifiedRecords ==
    [generic_name : Drugs, update_date : 1 .. MaxDate,
     availability_status : EpisodeStatuses]

\* The lists of records, in fetch order.
RECURSIVE RecordListsUpTo(_)
RecordListsUpTo(n) ==
    IF n = 0 THEN {<< >>}
    ELSE RecordListsUpTo(n - 1) \cup
         {Append(l, r) : l \in {m \in RecordListsUpTo(n - 1) : Len(m) = n - 1},
                         r \in ClassifiedRecords}

\* The records of one drug, in fetch order.
RecordsOfDrug(records, drug) ==
    SelectSeq(records, LAMBDA r : r.generic_name = drug)

\* Stable sort by update_date ascending: date after date, the records of one
\* date in the order they had.
RECURSIVE SortedFrom(_, _)
SortedFrom(records, date) ==
    IF date > MaxDate THEN << >>
    ELSE SelectSeq(records, LAMBDA r : r.update_date = date)
         \o SortedFrom(records, date + 1)

SortByUpdateDate(records) == SortedFrom(records, 1)

\* Among the records of one update_date the first one starts the episode.
FirstOfItsDate(sorted, i) ==
    \A j \in DOMAIN sorted : j < i => sorted[j].update_date # sorted[i].update_date

\* Only the last record of an update_date, in stable order, starts an episode.
StartsEpisode(sorted, i) ==
    \A j \in DOMAIN sorted : j > i => sorted[j].update_date # sorted[i].update_date

\* Every episode lasts until now.
EpisodeEndIsNow(sorted, i) == Now

\* The update_date of the next record with a strictly greater update_date,
\* "now" for the last one.
EpisodeEnd(sorted, i) ==
    LET later == {sorted[j].update_date :
                     j \in {k \in DOMAIN sorted :
                               sorted[k].update_date > sorted[i].update_date}}
    IN  IF later = {} THEN Now
        ELSE CHOOSE d \in later : \A e \in later : d <= e

EpisodesOfDrug(records, drug) ==
    LET sorted == SortByUpdateDate(RecordsOfDrug(records, drug))
    IN  {[generic_name |-> drug,
          episode_start |-> sorted[i].update_date,
          episode_end |-> EpisodeEnd(sorted, i),
          availability_status |-> sorted[i].availability_status,
          duration_days |-> EpisodeEnd(sorted, i) - sorted[i].update_date] :
            i \in {k \in DOMAIN sorted : StartsEpisode(sorted, k)}}

build_episodes(records) == UNION {EpisodesOfDrug(records, drug) : drug \in Drugs}

\* One call of build_episodes; the list of records is the input.
InitEpisodes ==
    /\ EtlAtRest
    /\ caller_ids = {}
    /\ assigned = << >>
    /\ classified = NoCall
    /\ sched = NoCall
    /\ built \in [records : RecordListsUpTo(MaxRecords), episodes : {{}},
                  result : {"none"}]

BuildEpisodes ==
    /\ built.result = "none"
    /\ built' = [built EXCEPT !.episodes = build_episodes(built.records),
                              !.result = "built"]
    /\ UNCHANGED << etl, caller_ids, assigned, classified, sched >>

NextEpisodes == BuildEpisodes

SpecEpisodes == InitEpisodes /\ [][NextEpisodes]_vars

\* ------------------------------------------------------------ scheduler.py
\* Time is counted in sleeps of the loop; the job is due every Period of them
\* (Monday 06:00), and the clock is followed for MaxWeeks periods.

Period == 3
MaxWeeks == 4

Horizon == Period * MaxWeeks

\* How the job can end: return code 0, another return code, TimeoutExpired,
\* any other exception of subprocess.run.
Outcomes == {"ok", "failed", "timeout", "exception"}

\* The first Monday 06:00 after the time t.
NextTrigger(t) == ((t \div Period) + 1) * Period

\* main(): the job is scheduled for the next Monday 06:00, the loop starts.
InitScheduler ==
    /\ EtlAtRest
    /\ caller_ids = {}
    /\ assigned = << >>
    /\ classified = NoCall
    /\ built = NoCall
    /\ \E t \in 0 .. Period - 1 :
          sched = [pc |-> "run_pending", now |-> t, next_run |-> NextTrigger(t),
                   started |-> 0, outcome |-> "none", ended |-> 0]

\* schedule.run_pending(): the job is not due.
RunPendingNothingDue ==
    /\ sched.pc = "run_pending"
    /\ sched.now < sched.next_run
    /\ sched' = [sched EXCEPT !.pc = "sleep"]
    /\ UNCHANGED << etl, caller_ids, assigned, classified, built >>

\* schedule.run_pending(): the job is due and run_weekly_etl() is called.
RunPendingStartsJob ==
    /\ sched.pc = "run_pending"
    /\ sched.now >= sched.next_run
    /\ sched' = [sched EXCEPT !.pc = "job", !.started = @ + 1]
    /\ UNCHANGED << etl, caller_ids, assigned, classified, built >>

\* Faulty: a job that did not succeed stays due.
JobEndKeepsFailedJobDue(outcome) ==
    /\ sched.pc = "job"
    /\ \E took \in 0 .. 1 :
          sched' = [sched EXCEPT !.pc = "sleep",
                                 !.now = @ + took,
                                 !.outcome = outcome,
                                 !.ended = sched.now + took,
                                 !.next_run = IF outcome = "ok"
                                              THEN NextTrigger(sched.now + took)
                                              ELSE sched.next_run]
    /\ UNCHANGED << etl, caller_ids, assigned, classified, built >>

\* run_weekly_etl() returns: subprocess.run ended within its hour (took 0 or
\* 1 sleep, a timeout takes the hour) and both except clauses only log; the
\* job is rescheduled for the next Monday 06:00.
JobEnd(outcome) ==
    /\ sched.pc = "job"
    /\ \E took \in 0 .. 1 :
          sched' = [sched EXCEPT !.pc = "sleep",
                                 !.now = @ + took,
                                 !.outcome = outcome,
                                 !.ended = sched.now + took,
                                 !.next_run = NextTrigger(sched.now + took)]
    /\ UNCHANGED << etl, caller_ids, assigned, classified, built >>

\* time.sleep(60)
Sleep ==
    /\ sched.pc = "sleep"
    /\ sched.now < Horizon
    /\ sched' = [sched EXCEPT !.pc = "run_pending", !.now = @ + 1]
    /\ UNCHANGED << etl, caller_ids, assigned, classified, built >>

NextScheduler ==
    \/ RunPendingNothingDue
    \/ RunPendingStartsJob
    \/ \E outcome \in Outcomes : JobEnd(outcome)
    \/ Sleep

SpecScheduler == InitScheduler /\ [][NextScheduler]_vars

\* The loop goes on: sleep returns, run_pending returns, and subprocess.run
\* ends by itself or by its timeout.
FairScheduler == SpecScheduler /\ WF_vars(NextScheduler)

\* ------------------------------------------------------------- properties

\* The (id, content) pairs of the rows of two tables together.
Mapping(s, h) ==
    {<< i, s[i] >> : i \in DOMAIN s} \cup {<< i, h[i] >> : i \in DOMAIN h}

\* The rows of `rows` are rows of `table`, content included.
Holds(table, rows) ==
    \A i \in DOMAIN rows : i \in DOMAIN table /\ table[i] = rows[i]

\* C1: a step deletes a row of Staging only when Historical already holds
\* that row (the upsert of the rows read from Staging has gone through), and
\* every id that ever was in Staging is still in Staging or in Historical.
C1_NoRowLost ==
    /\ [](everStaged \subseteq DOMAIN staging \cup DOMAIN historical)
    /\ [][\A i \in DOMAIN staging \ DOMAIN staging' :
             i \in DOMAIN historical /\ historical[i] = staging[i]]_vars

\* A promotion has returned True and removed a once-staged id from Staging.
C1_Witness ==
    /\ lastPromo.outcome = "ok"
    /\ lastPromo.rows # EmptyTable
    /\ \E i \in everStaged : i \notin DOMAIN staging /\ i \in DOMAIN historical

\* C2: no step removes an id from Historical, and when a run has ended,
\* whatever its outcome, Historical has at least the rows main() counted
\* before it.
C2_HistoricalNeverShrinks ==
    /\ [][DOMAIN historical \subseteq DOMAIN historical']_vars
    /\ [](\A p \in Procs : pc[p] = "done" => Count(historical) >= historical_before[p])

\* A run that began with rows in Historical has ended with more of them.
C2_Witness ==
    \E p \in Procs :
        /\ pc[p] = "done"
        /\ historical_before[p] > 0
        /\ Count(historical) > historical_before[p]

\* C3: an id that is in Staging or Historical with some content is never
\* given a different content by a step, in either table.
C3_IdNeverReassigned ==
    [][\A x \in Mapping(staging, historical) :
         \A y \in Mapping(staging', historical') : x[1] = y[1] => x[2] = y[2]]_vars

\* C4: when the API reports the same list of distinct records to every run,
\* Historical never holds two rows for one record.
C4_OneRowPerRecord ==
    (upstream # Varying /\ \A m, n \in DOMAIN upstream : upstream[m] = upstream[n] => m = n)
        => \A k \in Keys : Cardinality({i \in DOMAIN historical : historical[i] = k}) <= 1

\* C5: a promotion whose upsert went through and whose clear raised or was
\* skipped leaves its rows both in Staging and in Historical, and the
\* promotion that next runs on the same Staging rows leaves Historical with
\* as many rows as the first upsert left it.
C5_RetryAfterClearFailure ==
    /\ lastPromo.outcome \in {"clear_failed", "clear_skipped"} =>
          /\ lastPromo.staging = lastPromo.rows
          /\ Holds(lastPromo.historical, lastPromo.rows)
    /\ (/\ prevPromo.outcome \in {"clear_failed", "clear_skipped"}
        /\ lastPromo.outcome # "none"
        /\ lastPromo.rows = prevPromo.rows)
          => Count(lastPromo.historical) = Count(prevPromo.historical)

\* The clear raised, and the next promotion upserted the same rows again.
C5_Witness ==
    /\ prevPromo.outcome = "clear_failed"
    /\ lastPromo.outcome \in {"ok", "clear_failed"}
    /\ lastPromo.rows = prevPromo.rows
    /\ lastPromo.rows # EmptyTable

\* C6: a run whose Historical upsert raised returns False, has fetched and
\* transformed nothing, and leaves both tables as they were when it started;
\* Staging then still holds the rows that run read, and the next invocation
\* reads exactly those rows to promote.
C6_UpsertFailureAborts ==
    /\ \A p \in Procs :
          (pc[p] = "done" /\ fault[p] = "upsert") =>
              /\ result[p] = "fail"
              /\ raw_data[p] = << >> /\ df[p] = << >>
              /\ staging = atStart[p].staging
              /\ historical = atStart[p].historical
    /\ lastPromo.outcome = "upsert_failed" =>
          /\ lastPromo.rows # EmptyTable
          /\ staging = lastPromo.rows
          /\ \A p \in Procs :
                pc[p] = "promote_upsert" => staging_result[p] = lastPromo.rows

\* The invocation after a failed upsert has read Staging and is about to upsert.
C6_Witness ==
    /\ lastPromo.outcome = "upsert_failed"
    /\ \E p \in Procs : pc[p] = "promote_upsert"

\* C7: a run whose fetch failed after its promotion returned True returns
\* False, has transformed nothing, and leaves Staging and Historical as its
\* promotion left them.
C7_FetchFailureAborts ==
    \A p \in Procs :
        (pc[p] = "done" /\ fault[p] = "fetch") =>
            /\ result[p] = "fail"
            /\ df[p] = << >>
            /\ lastPromo.outcome = "ok"
            /\ staging = lastPromo.staging
            /\ historical = lastPromo.historical

\* The fetch failed in a run whose promotion had moved rows to Historical.
C7_Witness ==
    \E p \in Procs :
        /\ pc[p] = "done" /\ fault[p] = "fetch"
        /\ lastPromo.rows # EmptyTable
        /\ historical # atStart[p].historical

\* C8: a promotion that follows a promotion that returned True, with no row
\* written to Staging in between, leaves both row counts as the first left
\* them; and a promotion that finds Staging empty (its select neither raised
\* nor was killed) returns True and changes neither table.
C8_PromotionIdempotent ==
    /\ (prevPromo.outcome = "ok" /\ lastPromo.outcome # "none") =>
          /\ Count(lastPromo.historical) = Count(prevPromo.historical)
          /\ Count(lastPromo.staging) = Count(prevPromo.staging)
    /\ (lastPromo.outcome \notin {"none", "select_failed", "aborted"}
            /\ lastPromo.sBefore = EmptyTable) =>
          /\ lastPromo.outcome = "ok"
          /\ lastPromo.staging = lastPromo.sBefore
          /\ lastPromo.historical = lastPromo.hBefore

\* Two promotions in a row returned True, the first having promoted rows.
C8_Witness ==
    /\ prevPromo.outcome = "ok"
    /\ prevPromo.rows # EmptyTable
    /\ lastPromo.outcome = "ok"

\* C9: with the API reporting the same list to every run, a run that returns
\* True after an earlier run returned True leaves the (id, content) pairs of
\* Staging and Historical together as they were when it started.
C9_RunIdempotent ==
    \A p \in Procs :
        (upstream # Varying /\ pc[p] = "done" /\ result[p] = "ok" /\ okRuns >= 2) =>
            Mapping(staging, historical) = Mapping(atStart[p].staging, atStart[p].historical)

\* C10: once promotion has returned True, Staging is empty until the run
\* writes the new batch into it.
C10_PromotionEmptiesStaging ==
    \A p \in Procs : pc[p] \in {"fetch", "transform", "load"} => staging = EmptyTable

\* C11: the ids transform_data has just given to the fetched records are ids
\* of no row of Staging and of no row of Historical.
C11_AssignedIdsAreFree ==
    \A p \in Procs :
        pc[p] = "load" =>
            \A n \in DOMAIN df[p] :
                df[p][n].id \notin DOMAIN staging \cup DOMAIN historical

\* An invocation is in flight from its start until run_weekly_etl has ended.
InFlight == {p \in Procs : pc[p] \notin {"idle", "done"}}

\* C12: at most one invocation of run_weekly_etl is in flight.
C12_AtMostOneRunInFlight == Cardinality(InFlight) <= 1

\* C13: two calls that start from an empty set with records of the same key
\* fields return the same id, the base id, whatever update_type says.
C13_SameKeyFieldsSameId ==
    \A m, n \in DOMAIN assigned :
        (/\ assigned[m].before = {}
         /\ assigned[n].before = {}
         /\ assigned[m].record.key_fields = assigned[n].record.key_fields) =>
            /\ assigned[m].id = assigned[n].id
            /\ assigned[m].id = BaseId(assigned[m].record.key_fields)

C13_Witness ==
    \E m, n \in DOMAIN assigned :
        /\ assigned[m].before = {}
        /\ assigned[n].before = {}
        /\ assigned[m].record.key_fields = assigned[n].record.key_fields
        /\ assigned[m].record.update_type # assigned[n].record.update_type

\* The smallest integer from base on that is not in ids.
FirstFree(base, ids) ==
    CHOOSE n \in base .. base + Cardinality(ids) :
        n \notin ids /\ \A m \in base .. n - 1 : m \in ids

\* C14: every call returns the smallest integer from the record's base id on
\* that was not in the set, and leaves the set with that id added and nothing
\* else; two records of one base id assigned in turn get two ids, both in the set.
C14_NextFreeIdRegistered ==
    /\ \A n \in DOMAIN assigned :
          /\ assigned[n].id = FirstFree(BaseId(assigned[n].record.key_fields),
                                        assigned[n].before)
          /\ assigned[n].after = assigned[n].before \cup {assigned[n].id}
    /\ \A n \in DOMAIN assigned :
          (/\ n + 1 \in DOMAIN assigned
           /\ assigned[n + 1].before = assigned[n].after
           /\ BaseId(assigned[n + 1].record.key_fields)
                = BaseId(assigned[n].record.key_fields)) =>
              /\ assigned[n + 1].id > assigned[n].id
              /\ {assigned[n].id, assigned[n + 1].id} \subseteq assigned[n + 1].after

C14_Witness ==
    \E n \in DOMAIN assigned :
        /\ n + 1 \in DOMAIN assigned
        /\ assigned[n].record.key_fields = "b"
        /\ assigned[n + 1].record.key_fields = "c"
        /\ assigned[n].before = {2}
        /\ assigned[n + 1].before = assigned[n].after
        /\ assigned[n + 1].id = 3

\* classify_availability_status has returned.
Classified == classified.loaded /\ classified.result # "none"

CanonicalStatuses ==
    {"available", "limited availability", "not available", "discontinued", "unclear"}

\* The text "discontinued" occurs in one of the three fields.
SaysDiscontinued ==
    \E text \in {classified.availability_text, classified.related_info, classified.status} :
        Contains(OrEmpty(text), << "discontinue", "d" >>)

\* The trimmed availability_text is a key of the override mapping.
TrimmedTextIsKey ==
    Strip(OrEmpty(classified.availability_text)) \in DOMAIN classified.availability_mapping

\* The lookup of the override mapping is made and finds a key: the text is
\* not empty once trimmed.
OverrideApplies ==
    TrimmedTextIsKey /\ Strip(OrEmpty(classified.availability_text)) # << >>

\* The keyword categories in their order of precedence.
Precedence ==
    << [status |-> "discontinued", patterns |-> DiscontinuedPatterns],
       [status |-> "not available", patterns |-> NotAvailablePatterns],
       [status |-> "limited availability", patterns |-> LimitedPatterns],
       [status |-> "available", patterns |-> AvailablePatterns] >>

\* status is what the first matching category of Precedence gives for the
\* three fields, 'unclear' when no category matches.
FirstMatchIs(status) ==
    LET all_text == AllText(classified.availability_text, classified.related_info,
                            classified.status)
        hits == {i \in DOMAIN Precedence : Matches(all_text, Precedence[i].patterns)}
    IN  IF hits = {} THEN status = "unclear"
        ELSE \E i \in hits : (\A j \in hits : i <= j) /\ status = Precedence[i].status

\* C15 as stated: whenever "discontinued" occurs in one of the three fields
\* the result is 'discontinued', whatever the override mapping holds.
C15_DiscontinuedAlwaysWins ==
    (Classified /\ SaysDiscontinued) => classified.result = "discontinued"

\* C15 amended: whenever "discontinued" occurs in one of the three fields and
\* the override mapping does not apply to availability_text, the result is
\* 'discontinued', whatever other keywords occur.
C15_DiscontinuedWinsAmongKeywords ==
    (Classified /\ SaysDiscontinued /\ ~OverrideApplies) =>
        classified.result = "discontinued"

C15_Witness ==
    /\ Classified
    /\ classified.availability_text = << "Limited", ",", " ", "discontinue", "d" >>
    /\ classified.related_info = << "Next", " ", "delivery", " ", "tbd" >>
    /\ classified.availability_mapping # EmptyMapping
    /\ ~OverrideApplies
    /\ classified.result = "discontinued"

\* C16: when the trimmed availability_text is not a key of the override
\* mapping, the result is the status of the first category, in the order
\* discontinued, not available, limited availability, available, that has a
\* pattern in the lower-cased concatenation of the three fields.
C16_FirstCategoryWins ==
    (Classified /\ ~TrimmedTextIsKey) => FirstMatchIs(classified.result)

C16_Witness ==
    /\ Classified
    /\ ~TrimmedTextIsKey
    /\ classified.availability_text = << "Manufacturing", " ", "delay", " ", "reported" >>
    /\ classified.related_info = << "Limited", " ", "allocation" >>
    /\ classified.result = "not available"

\* C17 as stated: a trimmed availability_text that is a key of the override
\* mapping gets the mapped status; a mapping that could not be loaded is
\* empty and the result is the one of the keyword rules.
C17_OverrideReturnsMappedStatus ==
    Classified =>
        /\ (classified.availability_text # None /\ TrimmedTextIsKey) =>
              classified.result =
                  classified.availability_mapping[Strip(classified.availability_text)]
        /\ ~classified.csv.readable =>
              /\ classified.availability_mapping = EmptyMapping
              /\ FirstMatchIs(classified.result)

\* C17 amended: a trimmed availability_text that is not empty and is a key of
\* the override mapping gets the mapped status, whatever keywords occur; a
\* mapping that could not be loaded is empty and the result is the one of the
\* keyword rules.
C17_NonEmptyOverrideReturnsMappedStatus ==
    Classified =>
        /\ OverrideApplies =>
              classified.result =
                  classified.availability_mapping[Strip(classified.availability_text)]
        /\ ~classified.csv.readable =>
              /\ classified.availability_mapping = EmptyMapping
              /\ FirstMatchIs(classified.result)

C17_Witness ==
    /\ Classified
    /\ OverrideApplies
    /\ classified.availability_text = << "Limited", ",", " ", "discontinue", "d" >>
    /\ classified.related_info = << "Shipping" >>
    /\ classified.result = "limited availability"

\* C18: the result of classify_availability_status is one of the five
\* canonical statuses, and 'unclear' when neither the override mapping nor a
\* keyword matches.
C18_ResultIsCanonical ==
    Classified =>
        /\ classified.result \in CanonicalStatuses
        /\ (~TrimmedTextIsKey /\ FirstMatchIs("unclear")) => classified.result = "unclear"

\* The invocation has ended: run_weekly_etl returned or raised.
Ended(p) == pc[p] \in {"done", "exit_0", "exit_1"}

\* The calls of promotion, fetch, transformation and load that end a run.
StepFaults ==
    {"select", "upsert", "clear", "fetch", "transform", "load"}

\* C19: an invocation with reset_staging=True in which no promotion, fetch or
\* load call failed has returned True, and Staging holds exactly the rows of
\* the batch it fetched.
C19_ResetRunReplacesStaging ==
    \A p \in Procs :
        (reset_staging[p] /\ Ended(p) /\ fault[p] \notin StepFaults) =>
            /\ result[p] = "ok"
            /\ staging = RowsOf(df[p])

\* C20: a run in which a call failed did not return True and main exits with
\* a non-zero status; main exits with status zero only after a run that
\* returned True and with a Historical count that is not below the one it
\* read before the run.
C20_FailuresAreReported ==
    \A p \in Procs :
        /\ (Ended(p) /\ fault[p] # "none") => result[p] # "ok"
        /\ (pc[p] \in {"exit_0", "exit_1"} /\ fault[p] # "none") => pc[p] = "exit_1"
        /\ pc[p] = "exit_0" =>
              /\ result[p] = "ok"
              /\ Count(historical) >= historical_before[p]

\* C21: the schema step leads to the promotion step whatever it did, changing
\* no table and no result; and the result of a run that has ended is decided
\* by promotion, fetch and load: False exactly when one of them failed, True
\* when none did and nothing raised, the schema step having failed or not.
C21_SchemaStepNeverFailsRun ==
    /\ [][\A p \in Procs :
             pc[p] = "schema" =>
                 /\ pc'[p] \in {"schema", "promote_select", "idle"}
                 /\ staging' = staging /\ historical' = historical
                 /\ pc'[p] # "idle" => result'[p] = "none"]_vars
    /\ [](\A p \in Procs :
             Ended(p) =>
                 /\ result[p] = "fail" <=> fault[p] \in {"select", "upsert", "clear", "fetch", "load"}
                 /\ result[p] = "ok" <=> fault[p] \in {"none", "ensure_schema_exists", "get_existing_ids"})

C21_Witness ==
    \E p \in Procs :
        /\ pc[p] = "exit_0"
        /\ fault[p] = "ensure_schema_exists"
        /\ result[p] = "ok"
        /\ staging # EmptyTable

\* The update_dates of the records of a drug in the list handed to build_episodes.
DatesOf(drug) ==
    {built.records[n].update_date :
        n \in {m \in DOMAIN built.records : built.records[m].generic_name = drug}}

\* The episodes built for a drug.
EpisodesOf(drug) == {e \in built.episodes : e.generic_name = drug}

\* C22: the episodes of a drug start at its update_dates, one per date from
\* the earliest on; each ends where the next one starts and the last one ends
\* at now; each carries the status of a record of its start date and the
\* whole days between its two ends.  A drug without records has no episode.
C22_EpisodesPartitionTime ==
    built.result = "built" =>
        \A drug \in Drugs :
            /\ {e.episode_start : e \in EpisodesOf(drug)} = DatesOf(drug)
            /\ Cardinality(EpisodesOf(drug)) = Cardinality(DatesOf(drug))
            /\ \A e \in EpisodesOf(drug) :
                  /\ e.episode_start < e.episode_end
                  /\ \/ e.episode_end = Now
                        /\ \A d \in DatesOf(drug) : d <= e.episode_start
                     \/ e.episode_end \in DatesOf(drug)
                        /\ \A d \in DatesOf(drug) :
                              d <= e.episode_start \/ d >= e.episode_end
                  /\ e.duration_days = e.episode_end - e.episode_start
                  /\ \E n \in DOMAIN built.records :
                        /\ built.records[n].generic_name = drug
                        /\ built.records[n].update_date = e.episode_start
                        /\ built.records[n].availability_status = e.availability_status

\* Records at t0 < t1 < t2 give the three episodes [t0,t1), [t1,t2), [t2,now).
C22_Witness ==
    /\ built.result = "built"
    /\ built.records =
          << [generic_name |-> "x", update_date |-> 1, availability_status |-> "available"],
             [generic_name |-> "x", update_date |-> 2, availability_status |-> "not available"],
             [generic_name |-> "x", update_date |-> 3, availability_status |-> "available"] >>
    /\ built.episodes =
          { [generic_name |-> "x", episode_start |-> 1, episode_end |-> 2,
             availability_status |-> "available", duration_days |-> 1],
            [generic_name |-> "x", episode_start |-> 2, episode_end |-> 3,
             availability_status |-> "not available", duration_days |-> 1],
            [generic_name |-> "x", episode_start |-> 3, episode_end |-> Now,
             availability_status |-> "available", duration_days |-> Now - 3] }

\* The places in the list of the records of a drug with a given update_date.
PlacesOf(drug, date) ==
    {n \in DOMAIN built.records :
        /\ built.records[n].generic_name = drug
        /\ built.records[n].update_date = date}

\* C23: when several records of a drug have the same update_date, exactly one
\* episode of the drug starts at that date and it carries the status of the
\* last of them in fetch order; no episode starts where it ends.
C23_SameDateOneEpisode ==
    built.result = "built" =>
        /\ \A drug \in Drugs, date \in 1 .. MaxDate :
              Cardinality(PlacesOf(drug, date)) >= 2 =>
                  LET last == CHOOSE n \in PlacesOf(drug, date) :
                                  \A m \in PlacesOf(drug, date) : m <= n
                      starting == {e \in EpisodesOf(drug) : e.episode_start = date}
                  IN  /\ Cardinality(starting) = 1
                      /\ \A e \in starting :
                            e.availability_status = built.records[last].availability_status
        /\ \A e \in built.episodes : e.episode_start # e.episode_end

C23_Witness ==
    /\ built.result = "built"
    /\ \E n \in DOMAIN built.records :
          /\ n + 1 \in DOMAIN built.records
          /\ built.records[n] =
                [generic_name |-> "x", update_date |-> 2, availability_status |-> "available"]
          /\ built.records[n + 1] =
                [generic_name |-> "x", update_date |-> 2, availability_status |-> "not available"]
    /\ \E e \in built.episodes :
          /\ e.generic_name = "x"
          /\ e.episode_start = 2
          /\ e.availability_status = "not available"

\* The ids that were rows of Staging and are rows of neither table now.
Lost == everStaged \ (DOMAIN staging \cup DOMAIN historical)

\* C24: with overlapping invocations a staged row can be lost, and it is lost
\* in one way only: the staging clear of an invocation deletes a row that
\* this invocation did not read, hence did not upsert into Historical, because
\* another invocation wrote it after the select.
C24_LossOnlyByRacingClear ==
    [][\A id \in Lost' \ Lost :
          \E p \in Procs :
              /\ pc[p] = "promote_clear"
              /\ pc'[p] = "fetch"
              /\ id \in DOMAIN staging
              /\ id \notin DOMAIN staging_result[p]]_vars

\* A row written to Staging is in neither table, and the invocation that has
\* just cleared Staging never read it.
C24_Witness ==
    \E p \in Procs :
        /\ pc[p] = "fetch"
        /\ \E id \in Lost : id \notin DOMAIN staging_result[p]

Failures == Outcomes \ {"ok"}

\* C25: a job that ended in failure, timeout or exception is not retried at
\* once: the loop goes on sleeping and polling, every job starts at or after
\* the first Monday 06:00 that follows the end of the job before it, and when
\* that Monday is within the weeks followed, a job is started again.
C25_FailedRunWaitsForNextTrigger ==
    /\ [](sched.pc \in {"run_pending", "sleep", "job"})
    /\ [][(sched'.started # sched.started /\ sched.started > 0)
             => sched.now >= NextTrigger(sched.ended)]_vars
    /\ \A n \in 1 .. MaxWeeks + 1 :
          (sched.pc = "sleep" /\ sched.started = n /\ sched.outcome \in Failures
              /\ sched.next_run <= Horizon)
          ~> (sched.pc = "job" /\ sched.started = n + 1)

\* A job is running that follows a job which timed out.
C25_Witness ==
    /\ sched.pc = "job"
    /\ sched.started > 1
    /\ sched.outcome = "timeout"
    /\ sched.now >= NextTrigger(sched.ended)

\* C26: when transform_data has returned, the ids of its batch are pairwise
\* distinct and none of them is the id of a row that was in Staging when the
\* call read the existing ids (no other invocation is in flight, so Staging
\* is still as it was at the read), and the rows handed to the upsert are as
\* many as the records of the batch.
C26_BatchIdsDistinctAndFree ==
    \A p \in Procs :
        pc[p] = "load" =>
            /\ \A m, n \in DOMAIN df[p] : m # n => df[p][m].id # df[p][n].id
            /\ \A n \in DOMAIN df[p] : df[p][n].id \notin DOMAIN staging
            /\ Cardinality(DOMAIN RowsOf(df[p])) = Len(df[p])

\* Staging after the step is Staging before it with every record of the
\* batch stored under its id and every other row as it was.
WholeBatchWritten(p) ==
    /\ Len(df[p]) = Len(raw_data[p])
    /\ DOMAIN staging' = DOMAIN staging \cup {df[p][n].id : n \in DOMAIN df[p]}
    /\ \A n \in DOMAIN df[p] : staging'[df[p][n].id] = df[p][n].key
    /\ \A id \in DOMAIN staging \ {df[p][n].id : n \in DOMAIN df[p]} :
          staging'[id] = staging[id]

\* C27: once promotion has ended, no step of the run changes Historical, and
\* the only step that writes Staging is the load that returns True, which
\* writes the whole transformed batch; every other step, the load that
\* returns False among them, leaves Staging as promotion left it, and a run
\* that ended by a failed load has every row it promoted in Historical.
C27_StagingWrittenWhollyOrNotAtAll ==
    /\ [][\A p \in Procs :
             pc[p] \in {"fetch", "transform", "load"} =>
                 /\ historical' = historical
                 /\ IF pc[p] = "load" /\ result'[p] = "ok"
                    THEN WholeBatchWritten(p)
                    ELSE staging' = staging
                 /\ (pc[p] = "load" /\ pc'[p] = "done")
                        => result'[p] \in {"ok", "fail"}]_vars
    /\ [](\A p \in Procs :
             (pc[p] = "done" /\ fault[p] = "load") =>
                 /\ result[p] = "fail"
                 /\ \A id \in DOMAIN staging_result[p] :
                       /\ id \in DOMAIN historical
                       /\ historical[id] = staging_result[p][id])

\* A load has failed in a run that promoted rows and fetched two records:
\* the promoted rows are in Historical and none of the batch is in Staging.
C27_Witness ==
    \E p \in Procs :
        /\ pc[p] = "done"
        /\ fault[p] = "load"
        /\ staging_result[p] # EmptyTable
        /\ Len(df[p]) = 2
        /\ \A n \in DOMAIN df[p] : df[p][n].id \notin DOMAIN staging

====
